---- MODULE Spec2Model ----
(***************************************************************************)
(* Model of src/stock/us/us_market.py: UsaMarket.refresh_stocks, the       *)
(* per-symbol task refresh_stock run on a ThreadPoolExecutor, and the two  *)
(* quote adapters _get_yahoo_data / _get_google_data.                      *)
(***************************************************************************)
EXTENDS Integers, Sequences, FiniteSets, TLC

\* ---------------------------------------------------------------- bounds
MaxRetry == 2
MaxConcurrent == 2

\* ------------------------------------------------------- data frames
\* A pandas DataFrame is abstracted to: is it None, has it rows, its columns.
NoneDF == [none |-> TRUE, rows |-> 0, cols |-> {}]
DF(r, c) == [none |-> FALSE, rows |-> r, cols |-> c]
IsNone(d) == d.none
IsEmpty(d) == d.rows = 0

OHLCV == {"Open", "High", "Low", "Close", "Volume"}
YahooCols == OHLCV \cup {"Adj Close"}

\* What one call of the provider library does: raise, or return a frame.
Raise == [raise |-> TRUE, df |-> NoneDF]
RemoteError == "RemoteDataError"
KeyError == "KeyError"
Resp(d) == [raise |-> FALSE, df |-> d]

YahooResponses ==
    {Raise, Resp(DF(1, YahooCols)), Resp(DF(0, YahooCols)), Resp(DF(1, OHLCV))}
GoogleResponses ==
    {Raise, Resp(DF(1, OHLCV)), Resp(DF(0, OHLCV))}

\* ------------------------------------------------------- symbols
\* A symbol is a sequence of characters, so that the pattern is computed.
WordChars == {"A", "B", "C", "X", "1", "_"}
SymA == <<"A">>
SymB == <<"B">>
SymC == <<"C">>
SymBad == <<"-", "X">>

\* re.compile(r'^(\w|\.)+$').match(s): one or more of \w or '.', where '$'
\* also matches just before a single trailing newline.
AllWordOrDot(s) == Len(s) > 0 /\ \A j \in 1..Len(s) : s[j] \in WordChars \cup {"."}
symbol_pattern_match(s) ==
    \/ AllWordOrDot(s)
    \/ Len(s) > 1 /\ s[Len(s)] = "\n" /\ AllWordOrDot(SubSeq(s, 1, Len(s) - 1))

\* ------------------------------------------------------- dates
\* A date text is a tuple of its numeric fields: <<y>> or <<y, m, d>>.
history_start_date == <<2000, 1, 1>>
to_datetime(txt) ==
    IF Len(txt) = 1 THEN [year |-> txt[1], month |-> 1, day |-> 1]
    ELSE [year |-> txt[1], month |-> txt[2], day |-> txt[3]]

IpoNA == [kind |-> "str", na |-> TRUE, txt |-> <<>>, num |-> 0]
IpoNaN == [kind |-> "nan", na |-> FALSE, txt |-> <<>>, num |-> 0]
IpoNum(y) == [kind |-> "num", na |-> FALSE, txt |-> <<>>, num |-> y]
IpoStr(t) == [kind |-> "str", na |-> FALSE, txt |-> t, num |-> 0]

\* Faulty variant: a numeric IPO year is ignored.
resolve_start_date_no_year(ipo) ==
    to_datetime(IF ipo.kind = "str" /\ ~ipo.na THEN ipo.txt ELSE history_start_date)

resolve_start_date(ipo) ==
    to_datetime(
        IF ipo.kind = "str" THEN (IF ipo.na THEN history_start_date ELSE ipo.txt)
        ELSE IF ipo.kind = "nan" THEN history_start_date
        ELSE <<ipo.num>>)

\* ------------------------------------------------------- inputs
\* One listing row as pandas.read_excel yields it, tagged with its sheet.
Row(e, s, ipo) == [exchange |-> e, Symbol |-> s, IPO |-> ipo]

\* The listing snapshot: the rows in sheet order, or no file at all.
NoSnapshot == [exists |-> FALSE, rows |-> <<>>]
Snapshot(rows) == [exists |-> TRUE, rows |-> rows]

Listings ==
    { NoSnapshot,
      Snapshot(<<Row("nasdaq", SymA, IpoNum(2005))>>),
      Snapshot(<<Row("nasdaq", SymA, IpoNA), Row("nyse", SymB, IpoNaN)>>),
      Snapshot(<<Row("nasdaq", SymA, IpoNum(2005)), Row("nasdaq", SymBad, IpoNA),
                 Row("nyse", SymB, IpoStr(<<2010, 3, 15>>))>>),
      Snapshot(<<Row("nasdaq", SymA, IpoNum(2005)), Row("nasdaq", SymB, IpoNA),
                 Row("nasdaq", SymC, IpoNaN)>>),
      \* a sheet that lists one symbol twice
      Snapshot(<<Row("nasdaq", SymA, IpoNum(2005)), Row("nasdaq", SymA, IpoNum(2005))>>) }

RowSymbols(l) == {l.rows[j].Symbol : j \in 1..Len(l.rows)}

\* The stock_list argument of refresh_stocks.
StockLists == {{}, {SymA, SymB, SymBad}}

\* What a provider answers for a symbol on each attempt of one adapter call.
\* n is the number of valid symbols of the snapshot (2 at least when it has
\* several rows), a the number of attempts: a lone symbol gets every script,
\* two symbols the constant ones, three the constant ones that raise or
\* return a full frame.
Constant(S, a) == {[j \in 1..a |-> r] : r \in S}
YahooScripts(n, a) ==
    IF n = 1 THEN [1..a -> YahooResponses]
    ELSE IF n = 2 THEN Constant(YahooResponses, a)
    ELSE Constant({Raise, Resp(DF(1, YahooCols))}, a)
GoogleScripts(n, a) ==
    IF n = 1 THEN [1..a -> GoogleResponses]
    ELSE IF n = 2 THEN Constant(GoogleResponses, a)
    ELSE Constant({Raise, Resp(DF(1, OHLCV))}, a)

\* Price-history files left by an earlier run.
File(s, y, e, r, w) == [symbol |-> s, year |-> y, exchange |-> e, rows |-> r, run |-> w]
PriorFiles == {{}, {File(SymA, 2005, "nasdaq", 1, "prior"), File(SymC, 2000, "nyse", 1, "prior")}}

\* ------------------------------------------------------- state
VARIABLES
    retry,            \* self.retry
    concurrent,       \* self.concurrent
    stock_list,       \* argument of refresh_stocks
    listings,         \* the latest listing snapshot on disk
    yahoo,            \* provider behaviour: symbol -> script
    google,           \* provider behaviour: symbol -> script
    prior,            \* the stock-history folder as the earlier run left it
    files,            \* the stock-history folder
    pc,               \* position of refresh_stocks
    k,                \* rows of the snapshot already enumerated
    futures,          \* the futures list: one task record per submit
    total_symbols, symbols_no_data, yahoo_errors, google_errors,
    folded,           \* futures whose result the aggregation loop has read
    summary           \* the logged summary line, once logged

vars == <<retry, concurrent, stock_list, listings, yahoo, google, prior, files, pc, k,
          futures, total_symbols, symbols_no_data, yahoo_errors, google_errors,
          folded, summary>>

config == <<retry, concurrent, stock_list, listings, yahoo, google, prior>>
counters == <<total_symbols, symbols_no_data, yahoo_errors, google_errors>>

NoSummary == [logged |-> FALSE, no_data |-> 0, total |-> 0, yahoo |-> 0, google |-> 0]

Init ==
    /\ retry \in 1..MaxRetry
    /\ concurrent \in 1..MaxConcurrent
    /\ listings \in Listings
    /\ stock_list \in StockLists
    /\ LET syms == {s \in RowSymbols(listings) : symbol_pattern_match(s)}
           n == IF Len(listings.rows) > 1 /\ Cardinality(syms) < 2 THEN 2
                ELSE Cardinality(syms)
       IN /\ yahoo \in [syms -> YahooScripts(n, retry)]
          /\ google \in [syms -> GoogleScripts(n, retry)]
    /\ prior \in PriorFiles
    /\ files = prior
    /\ pc = "idle"
    /\ k = 0
    /\ futures = <<>>
    /\ total_symbols = 0
    /\ symbols_no_data = 0
    /\ yahoo_errors = 0
    /\ google_errors = 0
    /\ folded = 0
    /\ summary = NoSummary

\* ------------------------------------------------------- adapters
\* Faulty variant: the handler names one exception class only.
except_KeyError(e) == e = KeyError

\* "except Exception as e": every error raised inside the try is caught.
except_Exception(e) == TRUE

\* Faulty variant: the loop is one attempt short.
range_retry_short(n) == 1..(n - 1)

\* "for i in range(self.retry)": the attempts of one adapter call.
range_retry(n) == 1..n

Call(ret, calls, exc) == [ret |-> ret, calls |-> calls, exc |-> exc]

\* _get_yahoo_data from attempt i on; yahoo_data is the local so far, calls
\* the outcome of each attempt made ("error" is one logger.error line).
RECURSIVE yahoo_loop(_, _, _, _, _)
yahoo_loop(script, n, i, yahoo_data, calls) ==
    IF i \notin range_retry(n) THEN Call(yahoo_data, calls, FALSE)
    ELSE LET r == script[i] IN
         IF r.raise
         THEN \* web.get_data_yahoo raised: yahoo_data keeps its value
              IF except_Exception(RemoteError)
              THEN yahoo_loop(script, n, i + 1, yahoo_data, Append(calls, "error"))
              ELSE Call(yahoo_data, Append(calls, "error"), TRUE)
         ELSE IF "Adj Close" \notin r.df.cols
         THEN \* yahoo_data is assigned, then yahoo_data['Adj Close'] raises
              IF except_Exception(KeyError)
              THEN yahoo_loop(script, n, i + 1, r.df, Append(calls, "error"))
              ELSE Call(r.df, Append(calls, "error"), TRUE)
         ELSE \* Close := Adj Close; del Adj Close; break
              Call(DF(r.df.rows, (r.df.cols \ {"Adj Close"}) \cup {"Close"}),
                   Append(calls, "ok"), FALSE)

get_yahoo_data(script, n) == yahoo_loop(script, n, 1, NoneDF, <<>>)

RECURSIVE google_loop(_, _, _, _, _)
google_loop(script, n, i, google_data, calls) ==
    IF i \notin range_retry(n) THEN Call(google_data, calls, FALSE)
    ELSE LET r == script[i] IN
         IF r.raise
         THEN IF except_Exception(RemoteError)
              THEN google_loop(script, n, i + 1, google_data, Append(calls, "error"))
              ELSE Call(google_data, Append(calls, "error"), TRUE)
         ELSE Call(r.df, Append(calls, "ok"), FALSE)

get_google_data(script, n) == google_loop(script, n, 1, NoneDF, <<>>)

\* ------------------------------------------------------- tasks
\* A submitted refresh_stock call and its future. st: "queued" (in the
\* executor's work queue), "google" and "write" (on a worker thread, before
\* line 112 and before line 114), "done" (result set), "raised" (exception
\* set).
NoCall == Call(NoneDF, <<>>, FALSE)

\* Faulty variant: the submitted callable reads the loop variables when it
\* runs, so every task sees the last row.
NewTask_last_row(e, s, d) ==
    LET row == listings.rows[Len(listings.rows)]
    IN [exchange |-> row.exchange, symbol |-> row.Symbol,
        start_date |-> resolve_start_date(row.IPO), st |-> "queued",
        ycall |-> NoCall, gcalled |-> FALSE, gcall |-> NoCall,
        history_prices |-> NoneDF, wrote |-> FALSE,
        yahoo_error |-> FALSE, google_error |-> FALSE]

\* executor.submit(self.refresh_stock, exchange, stock.Symbol, start_date)
NewTask(e, s, d) ==
    [exchange |-> e, symbol |-> s, start_date |-> d, st |-> "queued",
     ycall |-> NoCall, gcalled |-> FALSE, gcall |-> NoCall,
     history_prices |-> NoneDF, wrote |-> FALSE,
     yahoo_error |-> FALSE, google_error |-> FALSE]

Tasks == 1..Len(futures)
OnWorker(t) == futures[t].st \in {"google", "write"}
Running == {t \in Tasks : OnWorker(t)}
\* Faulty variant: results are read without waiting for the task.
Finished_unawaited(t) == TRUE

\* A future whose result or exception is set.
Finished(t) == futures[t].st \in {"done", "raised"}

\* Faulty variant: a thread per submitted item, no cap.
worker_unbounded(running, max_workers) == TRUE

\* ThreadPoolExecutor(max_workers=self.concurrent): a queued item is taken
\* only by an idle worker, and there are max_workers workers.
worker_idle(running, max_workers) == running < max_workers

\* Faulty variant: the emptiness test is missing.
needs_google_none_only(history_prices) == IsNone(history_prices)

\* "if history_prices is None or history_prices.empty"
needs_google(history_prices) == IsNone(history_prices) \/ IsEmpty(history_prices)

\* A worker takes the oldest queued item and runs refresh_stock up to the
\* return of _get_yahoo_data (line 111).
RunYahoo(t) ==
    /\ t \in Tasks
    /\ futures[t].st = "queued"
    /\ \A u \in Tasks : u < t => futures[u].st # "queued"
    /\ worker_idle(Cardinality(Running), concurrent)
    /\ LET c == get_yahoo_data(yahoo[futures[t].symbol], retry)
           st == IF c.exc THEN "raised"
                 ELSE IF needs_google(c.ret) THEN "google" ELSE "write"
       IN futures' = [futures EXCEPT ![t] =
              [@ EXCEPT !.st = st, !.ycall = c, !.history_prices = c.ret]]
    /\ UNCHANGED <<config, files, pc, k, counters, folded, summary>>

\* Lines 112-113: the fallback call of _get_google_data.
RunGoogle(t) ==
    /\ t \in Tasks
    /\ futures[t].st = "google"
    /\ LET c == get_google_data(google[futures[t].symbol], retry)
       IN futures' = [futures EXCEPT ![t] =
              [@ EXCEPT !.st = IF c.exc THEN "raised" ELSE "write",
                        !.gcalled = TRUE, !.gcall = c, !.history_prices = c.ret]]
    /\ UNCHANGED <<config, files, pc, k, counters, folded, summary>>

\* Utility.get_stock_price_history_file(Market.US, symbol, year, exchange)
price_file(t) == <<t.symbol, t.start_date.year, t.exchange>>
FileKey(f) == <<f.symbol, f.year, f.exchange>>

\* history_prices.to_csv(file): creates or overwrites the file.
to_csv(fs, t) ==
    {f \in fs : FileKey(f) # price_file(t)}
        \cup {File(t.symbol, t.start_date.year, t.exchange, t.history_prices.rows, "this")}

\* Faulty variant: the first flag also counts an empty frame.
yahoo_flag_empty(history_prices) == IsNone(history_prices) \/ IsEmpty(history_prices)

\* Line 126: the two flags of the returned tuple.
yahoo_flag(history_prices) == IsNone(history_prices)
google_flag(history_prices) == IsNone(history_prices)

\* Faulty variant: the file is written whatever was obtained.
writes_always(history_prices) == TRUE

\* "if history_prices is not None"
writes_file(history_prices) == ~IsNone(history_prices)

\* Lines 114-126: persist when a frame was obtained, then return.
Finish(t) ==
    /\ t \in Tasks
    /\ futures[t].st = "write"
    /\ LET hp == futures[t].history_prices
       IN /\ files' = IF writes_file(hp) THEN to_csv(files, futures[t]) ELSE files
          /\ futures' = [futures EXCEPT ![t] =
                 [@ EXCEPT !.st = "done", !.wrote = writes_file(hp),
                           !.yahoo_error = yahoo_flag(hp),
                           !.google_error = google_flag(hp)]]
    /\ UNCHANGED <<config, pc, k, counters, folded, summary>>

\* ------------------------------------------------------- coordinator
\* Faulty variant: the test of stock_list is inverted.
rmtree_if_listed(fs, sl) == IF sl # {} THEN {} ELSE fs

\* Faulty variant: the folder is never purged.
rmtree_never(fs, sl) == fs

\* Lines 79-80: "if not stock_list: shutil.rmtree(folder, ignore_errors=True)"
rmtree_if_all(fs, sl) == IF sl = {} THEN {} ELSE fs

\* Lines 72-80: reset the locals; purge the folder when stock_list is empty.
Begin ==
    /\ pc = "idle"
    /\ total_symbols' = 0
    /\ symbols_no_data' = 0
    /\ yahoo_errors' = 0
    /\ google_errors' = 0
    /\ futures' = <<>>
    /\ files' = rmtree_if_all(files, stock_list)
    /\ pc' = "open"
    /\ UNCHANGED <<config, k, folded, summary>>

\* Lines 81-82: create the executor, open the snapshot. A missing snapshot
\* raises out of refresh_stocks.
OpenListings ==
    /\ pc = "open"
    /\ pc' = IF listings.exists THEN "enum" ELSE "aborted"
    /\ UNCHANGED <<config, files, k, futures, counters, folded, summary>>

\* Faulty variant: the pattern test is missing.
skipped_unless_listed(row) == stock_list # {} /\ row.Symbol \notin stock_list

\* Faulty variant: the stock_list test is missing.
skipped_unless_valid(row) == ~symbol_pattern_match(row.Symbol)

\* Lines 87-90: the two "continue" tests of the row loop.
skipped(row) ==
    \/ stock_list # {} /\ row.Symbol \notin stock_list
    \/ ~symbol_pattern_match(row.Symbol)

\* Faulty variant: the increment sits before the two "continue" tests.
count_every_row(total, submitted) == total + 1

\* Line 99 as placed in the loop body: reached only by a submitted row.
count_symbol(total, submitted) == IF submitted THEN total + 1 ELSE total

\* Lines 83-99: one iteration of the row loop.
EnumRow ==
    /\ pc = "enum"
    /\ k < Len(listings.rows)
    /\ LET row == listings.rows[k + 1]
       IN /\ futures' = IF skipped(row) THEN futures
                        ELSE Append(futures, NewTask(row.exchange, row.Symbol,
                                                     resolve_start_date(row.IPO)))
          /\ total_symbols' = count_symbol(total_symbols, ~skipped(row))
    /\ k' = k + 1
    /\ UNCHANGED <<config, files, pc, symbols_no_data, yahoo_errors, google_errors,
                   folded, summary>>

\* Leaving the two "with" blocks: executor.shutdown(wait=True) returns once
\* every submitted item has run.
ExitPool ==
    /\ pc = "enum"
    /\ k = Len(listings.rows)
    /\ \A t \in Tasks : Finished(t)
    /\ pc' = "fold"
    /\ UNCHANGED <<config, files, k, futures, counters, folded, summary>>

B2N(b) == IF b THEN 1 ELSE 0

\* Faulty variant: compares the sum of the flags with 1.
no_data_inc_one(yahoo_error, google_error) == B2N(1 = B2N(yahoo_error) + B2N(google_error))

\* Line 105: symbols_no_data += (2 == yahoo_error + google_error)
no_data_inc(yahoo_error, google_error) == B2N(2 = B2N(yahoo_error) + B2N(google_error))

\* Lines 101-105: one iteration of the aggregation loop; future.result()
\* waits for the task and re-raises what the task raised.
FoldResult ==
    /\ pc = "fold"
    /\ folded < Len(futures)
    /\ Finished(folded + 1)
    /\ LET t == futures[folded + 1]
       IN IF t.st = "raised"
          THEN /\ pc' = "aborted"
               /\ UNCHANGED <<counters, folded>>
          ELSE /\ yahoo_errors' = yahoo_errors + B2N(t.yahoo_error)
               /\ google_errors' = google_errors + B2N(t.google_error)
               /\ symbols_no_data' = symbols_no_data + no_data_inc(t.yahoo_error, t.google_error)
               /\ folded' = folded + 1
               /\ UNCHANGED <<pc, total_symbols>>
    /\ UNCHANGED <<config, files, k, futures, summary>>

\* Lines 106-108: the summary line.
LogSummary ==
    /\ pc = "fold"
    /\ folded = Len(futures)
    /\ summary' = [logged |-> TRUE, no_data |-> symbols_no_data, total |-> total_symbols,
                   yahoo |-> yahoo_errors, google |-> google_errors]
    /\ pc' = "done"
    /\ UNCHANGED <<config, files, k, futures, counters, folded>>

Next ==
    \/ Begin
    \/ OpenListings
    \/ EnumRow
    \/ ExitPool
    \/ FoldResult
    \/ LogSummary
    \/ \E t \in Tasks : RunYahoo(t)
    \/ \E t \in Tasks : RunGoogle(t)
    \/ \E t \in Tasks : Finish(t)

Spec == Init /\ [][Next]_vars

\* Threads that can run do run: the coordinator and the pool's workers.
FairSpec == Spec /\ WF_vars(Next)

\* ======================================================= claims
\* What the providers do, read off the scripts alone.
YahooGood(r) == ~r.raise /\ "Adj Close" \in r.df.cols
GoogleGood(r) == ~r.raise
\* The first attempt (within n) that does not end in an error, 0 if none.
FirstGood(script, n, Good(_)) ==
    IF \E i \in 1..n : Good(script[i])
    THEN CHOOSE i \in 1..n : Good(script[i]) /\ \A j \in 1..(i - 1) : ~Good(script[j])
    ELSE 0
YahooFirst(s) == FirstGood(yahoo[s], retry, YahooGood)
GoogleFirst(s) == FirstGood(google[s], retry, GoogleGood)

Usable(d) == ~IsNone(d) /\ ~IsEmpty(d)
Returned(t) == futures[t].st = "done"
YahooReturned(t) == futures[t].st \in {"google", "write", "done"}
GoogleReturned(t) == futures[t].gcalled /\ futures[t].st \in {"write", "done"}

\* C1: for every symbol processed by refresh_stock, primaryFailed is true
\* exactly when the Yahoo adapter returned no usable data, and secondaryFailed
\* exactly when the Google adapter was tried and returned no usable data.
C1_FlagsReflectAdapters ==
    \A t \in Tasks : Returned(t) =>
        /\ futures[t].yahoo_error = ~Usable(futures[t].ycall.ret)
        /\ futures[t].google_error = (futures[t].gcalled /\ ~Usable(futures[t].gcall.ret))

\* C2: one exchange, three valid symbols, full refresh: A succeeds on Yahoo,
\* B fails Yahoo and succeeds on Google, C fails both. Then the summary has
\* total 3, no-data 1, yahoo errors >= 2, google errors >= 1, and exactly the
\* two price files of A and B exist.
ABCListing ==
    Snapshot(<<Row("nasdaq", SymA, IpoNum(2005)), Row("nasdaq", SymB, IpoNA),
               Row("nasdaq", SymC, IpoNaN)>>)
ABCScenario ==
    /\ listings = ABCListing
    /\ stock_list = {}
    /\ YahooFirst(SymA) > 0 /\ yahoo[SymA][YahooFirst(SymA)].df.rows > 0
    /\ YahooFirst(SymB) = 0 /\ \A i \in 1..retry : yahoo[SymB][i].raise
    /\ GoogleFirst(SymB) > 0 /\ google[SymB][GoogleFirst(SymB)].df.rows > 0
    /\ YahooFirst(SymC) = 0 /\ \A i \in 1..retry : yahoo[SymC][i].raise
    /\ GoogleFirst(SymC) = 0
C2_EndToEnd ==
    (ABCScenario /\ summary.logged) =>
        /\ summary.total = 3
        /\ summary.no_data = 1
        /\ summary.yahoo >= 2
        /\ summary.google >= 1
        /\ {FileKey(f) : f \in files} = {<<SymA, 2005, "nasdaq">>, <<SymB, 2000, "nasdaq">>}

\* C3: hadData (the returned series is non-empty) holds iff Yahoo returned a
\* non-empty series or Google did; and a symbol whose Yahoo call failed and
\* whose Google call returned an empty series has no data and is tallied in
\* symbols_no_data.
HadData(t) == Usable(futures[t].history_prices)
C3_HadData ==
    \A t \in Tasks : Returned(t) =>
        /\ HadData(t) = (Usable(futures[t].ycall.ret)
                            \/ (futures[t].gcalled /\ Usable(futures[t].gcall.ret)))
        /\ (/\ IsNone(futures[t].ycall.ret)
            /\ futures[t].gcalled
            /\ ~IsNone(futures[t].gcall.ret)
            /\ IsEmpty(futures[t].gcall.ret))
           => (~HadData(t)
               /\ no_data_inc(futures[t].yahoo_error, futures[t].google_error) = 1)

\* C4: symbols_no_data counts exactly the collected outcomes whose two flags
\* are both true: after each step of the aggregation loop for the outcomes
\* read so far (so it grows by one exactly on such an outcome), and in the
\* logged summary for all of them.
BothFailed(n) == {t \in 1..n : futures[t].yahoo_error /\ futures[t].google_error}
AttemptsMade(first) == IF first = 0 THEN retry ELSE first
C5_RetryRespected ==
    \A t \in Tasks :
        LET f == futures[t]
            yf == YahooFirst(f.symbol)
            gf == GoogleFirst(f.symbol)
        IN /\ YahooReturned(t) =>
                /\ Len(f.ycall.calls) = AttemptsMade(yf)
                /\ Len(f.ycall.calls) <= retry
                /\ \A i \in 1..Len(f.ycall.calls) :
                       (f.ycall.calls[i] = "ok") = (i = yf)
                /\ yf = retry =>
                       /\ ~IsNone(f.ycall.ret)
                       /\ f.ycall.ret.rows = yahoo[f.symbol][retry].df.rows
                       /\ "Close" \in f.ycall.ret.cols
                       /\ "Adj Close" \notin f.ycall.ret.cols
           /\ GoogleReturned(t) =>
                /\ Len(f.gcall.calls) = AttemptsMade(gf)
                /\ Len(f.gcall.calls) <= retry
                /\ \A i \in 1..Len(f.gcall.calls) :
                       (f.gcall.calls[i] = "ok") = (i = gf)
                /\ gf = retry => f.gcall.ret = google[f.symbol][retry].df
           /\ Returned(t) =>
                /\ (yf = retry /\ Usable(f.ycall.ret)) => ~f.yahoo_error
                /\ (f.gcalled /\ gf = retry) => ~f.google_error
C5_Witness ==
    /\ retry = 2
    /\ \E t \in Tasks :
           /\ Returned(t)
           /\ futures[t].ycall.calls = <<"error", "ok">>
           /\ IsEmpty(futures[t].ycall.ret)
           /\ futures[t].gcall.calls = <<"error", "ok">>
           /\ ~futures[t].google_error

\* C6: when every one of the retry attempts of an adapter call ends in an
\* error, wherever in the attempt it is raised, the adapter returns None and
\* raises nothing, and refresh_stock goes on to the Google adapter.
AllErrors(c) == Len(c.calls) = retry /\ \A i \in 1..retry : c.calls[i] = "error"
C6_ExhaustedIsFailure ==
    \A t \in Tasks :
        /\ (YahooReturned(t) /\ AllErrors(futures[t].ycall)) =>
               /\ IsNone(futures[t].ycall.ret)
               /\ ~futures[t].ycall.exc
               /\ futures[t].st = "google" \/ futures[t].gcalled
        /\ (GoogleReturned(t) /\ AllErrors(futures[t].gcall)) =>
               /\ IsNone(futures[t].gcall.ret)
               /\ ~futures[t].gcall.exc

\* C7: with the snapshot available, whatever the adapters do, no exception
\* escapes a refresh_stock task, nothing aborts the run, and the run ends
\* with the summary logged.
C7_AlwaysCompletes ==
    /\ [](\A t \in Tasks : futures[t].st # "raised")
    /\ [](listings.exists => pc # "aborted")
    /\ (listings.exists ~> (pc = "done" /\ summary.logged))
C7_Witness ==
    /\ summary.logged
    /\ \E t \in Tasks :
           /\ AllErrors(futures[t].ycall)
           /\ AllErrors(futures[t].gcall)
           /\ IsNone(futures[t].history_prices)
    /\ \E t \in Tasks : futures[t].wrote
    /\ retry = 2

\* C8: the summary is logged only after every submitted task has completed
\* and its outcome has been read exactly once: then total equals the number
\* of tasks submitted and of outcomes read, one per catalog row that passed
\* the filter and the pattern, and the error counts are those of the outcomes.
RECURSIVE SubmittedRows(_)
SubmittedRows(rows) ==
    IF rows = <<>> THEN <<>>
    ELSE LET r == rows[Len(rows)]
             rest == SubmittedRows(SubSeq(rows, 1, Len(rows) - 1))
         IN IF (stock_list = {} \/ r.Symbol \in stock_list) /\ symbol_pattern_match(r.Symbol)
            THEN Append(rest, <<r.exchange, r.Symbol>>)
            ELSE rest
C8_SummaryAfterBarrier ==
    summary.logged =>
        /\ \A t \in Tasks : futures[t].st = "done"
        /\ folded = Len(futures)
        /\ summary.total = Len(futures)
        /\ [t \in Tasks |-> <<futures[t].exchange, futures[t].symbol>>]
               = SubmittedRows(listings.rows)
        /\ summary.yahoo = Cardinality({t \in Tasks : futures[t].yahoo_error})
        /\ summary.google = Cardinality({t \in Tasks : futures[t].google_error})
C8_Witness ==
    /\ summary.logged
    /\ summary.total = 2
    /\ Len(listings.rows) = 3
    /\ summary.yahoo = 1

\* C9: at every moment the number of refresh_stock tasks on a worker thread
\* is at most self.concurrent, however many have been submitted.
C9_BoundedWorkers == Cardinality(Running) <= concurrent
C9_Witness ==
    /\ concurrent = 2
    /\ Cardinality(Running) = 2
    /\ \E t \in Tasks : futures[t].st = "queued"

\* C10: in one task Yahoo is called first and has made all its attempts
\* before Google's first; Google is called iff Yahoo returned None or an
\* empty series, and never when Yahoo returned a non-empty series.
C10_PrimaryThenSecondary ==
    \A t \in Tasks :
        LET f == futures[t]
        IN /\ (f.gcalled \/ f.gcall.calls # <<>> \/ f.st = "google") =>
                  /\ Len(f.ycall.calls) = AttemptsMade(YahooFirst(f.symbol))
                  /\ ~Usable(f.ycall.ret)
           /\ f.st \in {"write", "done"} => (f.gcalled = ~Usable(f.ycall.ret))
           /\ f.gcalled => Len(f.gcall.calls) >= 1
           /\ f.st = "queued" => (f.ycall.calls = <<>> /\ ~f.gcalled)
C10_Witness ==
    /\ \E t \in Tasks :
           /\ Returned(t) /\ futures[t].gcalled
           /\ ~IsNone(futures[t].ycall.ret) /\ IsEmpty(futures[t].ycall.ret)
    /\ \E t \in Tasks : Returned(t) /\ ~futures[t].gcalled

\* C11: a task writes its price file iff one of the two adapters returned
\* it a non-empty series; a task whose sources gave a failure or only an
\* empty series writes no file.
GotSeries(t) ==
    \/ Usable(futures[t].ycall.ret)
    \/ futures[t].gcalled /\ Usable(futures[t].gcall.ret)
C11_WritesIffSeries ==
    \A t \in Tasks : Returned(t) =>
        /\ futures[t].wrote = GotSeries(t)
        /\ ~GotSeries(t) => \A f \in files : f.run = "this" => FileKey(f) # price_file(futures[t])

\* C12: a catalog symbol that fails the pattern never gets a task, never
\* yields an outcome and is not counted in total_symbols, also when
\* stock_list names it.
InvalidRows(n) == {j \in 1..n : ~symbol_pattern_match(listings.rows[j].Symbol)}
C12_InvalidNeverSubmitted ==
    /\ \A t \in Tasks : symbol_pattern_match(futures[t].symbol)
    /\ pc \in {"enum", "fold", "done"} =>
           /\ total_symbols = Len(futures)
           /\ total_symbols <= k - Cardinality(InvalidRows(k))
    /\ summary.logged => summary.total <= Len(listings.rows) - Cardinality(InvalidRows(Len(listings.rows)))
C12_Witness ==
    /\ summary.logged
    /\ SymBad \in stock_list
    /\ SymBad \in RowSymbols(listings)
    /\ summary.total = 2

\* C13: the tasks submitted are exactly one per catalog row whose symbol
\* passes the pattern and, with a non-empty stock_list, is in stock_list, in
\* row order; with an empty stock_list every valid row gets a task.
TaskRows == [t \in Tasks |-> <<futures[t].exchange, futures[t].symbol>>]
C13_SubmittedSet ==
    /\ pc \in {"enum", "fold", "done"} =>
           TaskRows = SubmittedRows(SubSeq(listings.rows, 1, k))
    /\ pc \in {"fold", "done"} => k = Len(listings.rows)
    /\ pc \in {"idle", "open", "aborted"} => futures = <<>>
C13_Witness ==
    /\ pc = "done"
    /\ stock_list # {}
    /\ Len(futures) = 2
    /\ Len(listings.rows) = 3
    /\ InvalidRows(3) = {}

\* C14: after a full refresh (empty stock_list) no price file of the earlier
\* run remains, in particular none of a symbol absent from the new catalog:
\* the files present are those this run wrote.
WrittenBy(t) ==
    File(futures[t].symbol, futures[t].start_date.year, futures[t].exchange,
         futures[t].history_prices.rows, "this")
C14_FullRefreshPurges ==
    (stock_list = {} /\ pc # "idle") =>
        /\ \A f \in files : f.run = "this" /\ \E t \in Tasks : futures[t].wrote /\ f = WrittenBy(t)
        /\ \A f \in prior : f.symbol \notin RowSymbols(listings) =>
               \A g \in files : FileKey(g) # FileKey(f)
C14_Witness ==
    /\ stock_list = {}
    /\ pc = "done"
    /\ prior # {}
    /\ files # {}
    /\ \E f \in prior : f.symbol \notin RowSymbols(listings)
    /\ \E f \in prior : \E g \in files : FileKey(g) = FileKey(f)

\* C15: the summary counters and the final set of price files are a function
\* of the catalog, stock_list, the earlier files and each symbol's per-source
\* results: every interleaving of the tasks ends with the same summary and
\* the same files.
RECURSIVE Submitted(_)
Submitted(rows) ==
    IF rows = <<>> THEN <<>>
    ELSE LET r == rows[Len(rows)]
             rest == Submitted(SubSeq(rows, 1, Len(rows) - 1))
         IN IF (stock_list = {} \/ r.Symbol \in stock_list) /\ symbol_pattern_match(r.Symbol)
            THEN Append(rest, r)
            ELSE rest
\* The start date the row's IPO hint stands for.
ExpectedStart(ipo) ==
    IF ipo.kind = "num" THEN [year |-> ipo.num, month |-> 1, day |-> 1]
    ELSE IF ipo.kind = "str" /\ ~ipo.na
    THEN [year |-> ipo.txt[1], month |-> ipo.txt[2], day |-> ipo.txt[3]]
    ELSE [year |-> 2000, month |-> 1, day |-> 1]
\* What refresh_stock ends up holding for symbol s, read off the scripts.
Responded(s) == {i \in 1..retry : ~yahoo[s][i].raise}
ExpectedYahoo(s) ==
    IF YahooFirst(s) > 0 THEN [none |-> FALSE, rows |-> yahoo[s][YahooFirst(s)].df.rows]
    ELSE IF Responded(s) = {} THEN [none |-> TRUE, rows |-> 0]
    ELSE LET i == CHOOSE i \in Responded(s) : \A j \in Responded(s) : j <= i
         IN [none |-> FALSE, rows |-> yahoo[s][i].df.rows]
ExpectedGoogle(s) ==
    IF GoogleFirst(s) > 0 THEN [none |-> FALSE, rows |-> google[s][GoogleFirst(s)].df.rows]
    ELSE [none |-> TRUE, rows |-> 0]
ExpectedPrices(s) ==
    IF ExpectedYahoo(s).none \/ ExpectedYahoo(s).rows = 0 THEN ExpectedGoogle(s)
    ELSE ExpectedYahoo(s)
ExpectedRows == Submitted(listings.rows)
ExpectedNoData == {j \in 1..Len(ExpectedRows) : ExpectedPrices(ExpectedRows[j].Symbol).none}
ExpectedWritten ==
    {File(ExpectedRows[j].Symbol, ExpectedStart(ExpectedRows[j].IPO).year,
          ExpectedRows[j].exchange, ExpectedPrices(ExpectedRows[j].Symbol).rows, "this") :
        j \in (1..Len(ExpectedRows)) \ ExpectedNoData}
ExpectedFiles ==
    {f \in (IF stock_list = {} THEN {} ELSE prior) :
        \A g \in ExpectedWritten : FileKey(g) # FileKey(f)} \cup ExpectedWritten
C15_OrderIndependent ==
    summary.logged =>
        /\ summary.total = Len(ExpectedRows)
        /\ summary.no_data = Cardinality(ExpectedNoData)
        /\ summary.yahoo = Cardinality(ExpectedNoData)
        /\ summary.google = Cardinality(ExpectedNoData)
        /\ files = ExpectedFiles
C15_Witness ==
    /\ summary.logged
    /\ concurrent >= 2
    /\ summary.total = 3
    /\ summary.no_data = 1
    /\ Cardinality(files) = 2

\* C16 as stated: no two tasks of one run have the same target file.
C16_DistinctFiles ==
    \A t, u \in Tasks : t # u => price_file(futures[t]) # price_file(futures[u])
\* C16 as amended: when no sheet lists a symbol twice, no two tasks of one
\* run have the same target file, so no two running tasks contend for one.
UniqueRows ==
    \A i, j \in 1..Len(listings.rows) :
        i # j => <<listings.rows[i].exchange, listings.rows[i].Symbol>>
                     # <<listings.rows[j].exchange, listings.rows[j].Symbol>>
C16_DistinctFilesUniqueRows ==
    UniqueRows =>
        \A t, u \in Tasks : t # u => price_file(futures[t]) # price_file(futures[u])
C16_Witness ==
    /\ UniqueRows
    /\ \E t, u \in Tasks : t # u /\ futures[t].st = "write" /\ futures[u].st = "write"
                            /\ futures[t].start_date.year = futures[u].start_date.year

\* C17: the start date given to a task is the configured history start date
\* when the IPO hint is "n/a" or NaN, January 1 of year Y when it is the
\* number Y, and the date the text spells when it is any other string.
C17_StartDate ==
    pc \in {"enum", "fold", "done"} =>
        [t \in Tasks |-> futures[t].start_date]
            = [t \in 1..Len(Submitted(SubSeq(listings.rows, 1, k))) |->
                   ExpectedStart(Submitted(SubSeq(listings.rows, 1, k))[t].IPO)]
C17_Witness ==
    /\ pc = "done"
    /\ \E t \in Tasks : futures[t].start_date = [year |-> 2005, month |-> 1, day |-> 1]
    /\ \E t \in Tasks : futures[t].start_date = [year |-> 2010, month |-> 3, day |-> 15]

\* C18: the two flags refresh_stock returns are always equal, so throughout
\* the aggregation loop and in the summary yahoo_errors = google_errors =
\* symbols_no_data, and a symbol whose Yahoo call failed and whose Google
\* call returned a frame adds nothing to yahoo_errors.
C18_FlagsEqual ==
    /\ \A t \in Tasks : futures[t].yahoo_error = futures[t].google_error
    /\ yahoo_errors = google_errors /\ google_errors = symbols_no_data
    /\ summary.yahoo = summary.google /\ summary.google = summary.no_data
    /\ \A t \in Tasks :
           (Returned(t) /\ IsNone(futures[t].ycall.ret) /\ futures[t].gcalled
                /\ ~IsNone(futures[t].gcall.ret)) => ~futures[t].yahoo_error
C18_Witness ==
    /\ summary.logged
    /\ summary.yahoo = 1
    /\ \E t \in Tasks : IsNone(futures[t].ycall.ret) /\ Usable(futures[t].gcall.ret)
    /\ \E t \in Tasks : futures[t].yahoo_error /\ futures[t].google_error

\* C19: in a full refresh the folder is purged before the snapshot is
\* opened: a run whose snapshot is missing aborts with no task submitted and
\* no summary, and with every earlier price file removed.
C19_PurgeBeforeOpen ==
    /\ (stock_list = {} /\ pc \in {"open", "aborted"}) => files = {}
    /\ pc = "aborted" => (~listings.exists /\ futures = <<>> /\ ~summary.logged)
    /\ ~listings.exists => (futures = <<>> /\ ~summary.logged /\ pc \in {"idle", "open", "aborted"})
C19_Witness ==
    /\ pc = "aborted"
    /\ stock_list = {}
    /\ prior # {}
    /\ files = {}

\* C20: a run with a non-empty stock_list never purges: every earlier file
\* of a symbol outside stock_list stays as it was, the only files created
\* or overwritten are those of listed symbols for which a frame was
\* obtained, and a listed symbol whose two sources both fail keeps its old
\* file.
C20_FilteredRunFrame ==
    stock_list # {} =>
        /\ \A f \in prior : f.symbol \notin stock_list => f \in files
        /\ \A f \in files \ prior :
               /\ f.symbol \in stock_list
               /\ \E t \in Tasks : futures[t].wrote /\ ~IsNone(futures[t].history_prices)
                                    /\ f = WrittenBy(t)
        /\ \A f \in prior \ files :
               \E t \in Tasks : futures[t].wrote /\ price_file(futures[t]) = FileKey(f)
        /\ \A t \in Tasks : (Returned(t) /\ IsNone(futures[t].history_prices)) =>
               \A f \in prior : FileKey(f) = price_file(futures[t]) => f \in files
C20_Witness ==
    /\ stock_list # {}
    /\ pc = "done"
    /\ \E t \in Tasks : /\ IsNone(futures[t].history_prices)
                        /\ \E f \in prior : FileKey(f) = price_file(futures[t]) /\ f \in files
    /\ \E t \in Tasks : futures[t].wrote
    /\ \E f \in prior : f.symbol \notin stock_list /\ f \in files

====
